---- MODULE Spec2Model ----
(***************************************************************************)
(* A model of lazy-rag's two workflow engines:                             *)
(*   - lazy_rag/framework/multi_stage_search.py, the entry-forwarding      *)
(*     Workflow (definitions prefixed MSS_), and                           *)
(*   - lazy_rag/framework.py, the candidate-passing Workflow (prefixed     *)
(*     FW_).                                                               *)
(* Both modules define classes of the same names, so the prefix tells them *)
(* apart.  The variable `module` says which of the two modules a behaviour *)
(* runs; it never changes.                                                 *)
(***************************************************************************)
EXTENDS Integers, Sequences, FiniteSets, TLC

(***************************************************************************)
(* Bounds of the model.                                                    *)
(***************************************************************************)
MaxNodes == 2       \* add is explored while the workflow has fewer nodes
MaxRegs == 2        \* ServerRegistry.register calls in one behaviour
MaxRuns == 2        \* search()/run() invocations in one behaviour
MaxFresh == 2       \* back-end instances constructed by load_from_config

(***************************************************************************)
(* Program constants.                                                      *)
(***************************************************************************)
DefaultTopK == 10

VARIABLES
    module,     \* "mss" = multi_stage_search.py, "fw" = framework.py
    reg,        \* ServerRegistry._reg : tag -> class ("" = no entry)
    regHist,    \* history: the register calls made so far, in order
    servers,    \* MSS Workflow._servers, a dict in insertion order
    nodes,      \* Workflow._nodes
    outputs,    \* FW Workflow._outputs, a dict in insertion order
    log,        \* FW Workflow.log.actions / the ServerLog of the MSS search
    trace,      \* the trace list of the MSS search in progress
    calls,      \* history: back-end calls made by the run in progress
    pc,         \* position of the run: idle, gather, search, done, failed
    idx,        \* index (from 1) of the node the run is at
    cand,       \* FW _exec_search: candidates_list between ensure and search
    runNo,      \* number of search()/run() invocations so far
    ret,        \* value returned by the last completed search()/run()
    last,       \* the last call made on the API and the exception it raised
    allAddsOk,  \* history: no add call on the current workflow has failed
    nextId      \* identity of the next back-end instance to be constructed

vars == <<module, reg, regHist, servers, nodes, outputs, log, trace, calls,
          pc, idx, cand, runNo, ret, last, allAddsOk, nextId>>

wfVars == <<servers, nodes>>
runVars == <<outputs, log, trace, calls, pc, idx, cand, runNo, ret>>

(***************************************************************************)
(* Exceptions.  A call's outcome is NoExc or the exception it raised.      *)
(***************************************************************************)
NoExc == [type |-> "none", arg |-> ""]
Exc(t, a) == [type |-> t, arg |-> a]

(***************************************************************************)
(* Values of a declarative config (what json would carry).  Every value is *)
(* tagged with its Python type so that isinstance can be modelled.         *)
(***************************************************************************)
JNull == [t |-> "null", v |-> ""]
JStr(s) == [t |-> "str", v |-> s]
JInt(n) == [t |-> "int", v |-> n]
JList(s) == [t |-> "list", v |-> s]
JDict(r) == [t |-> "dict", v |-> r]
IsInst(x, ty) == x.t = ty
HasKey(d, k) == k \in DOMAIN d.v
DictGet(d, k, default) == IF HasKey(d, k) THEN d.v[k] ELSE default

(***************************************************************************)
(* Back-end instances.  Back-ends are external; the repository's own       *)
(* implementation is DummyServer (tests and sample).  An instance has an   *)
(* identity (Python's `is`), a name and a type.                            *)
(***************************************************************************)
Server(i, n, ty) == [id |-> i, name |-> n, type |-> ty]
NoServer == Server(0, "", "")
ServerA == Server(1, "s1", "dummy")
ServerB == Server(2, "s2", "other")
ServerC == Server(3, "s1", "dummy")     \* another instance named like ServerA
Insts == {ServerA, ServerB, ServerC}
FirstFreshId == Cardinality(Insts) + 1

\* DummyServer.model_dump
Server_model_dump(s) == JDict([type |-> JStr(s.type), name |-> JStr(s.name)])

\* DummyServer.load_from_config: a new instance with the config's name and type
Server_load_from_config(config, id) ==
    Server(id, config.v["name"].v, config.v["type"].v)

(***************************************************************************)
(* ServerRegistry (the same code in both modules).                         *)
(***************************************************************************)
Tags == {"dummy", "other"}
Classes == {"DummyServer", "DummyServer2"}
NoClass == ""

\* register that keeps an earlier registration (dict.setdefault)
ServerRegistry_register_KeepFirst(r, server_type, server_class) ==
    [r EXCEPT ![server_type] = IF r[server_type] = NoClass THEN server_class
                               ELSE r[server_type]]

ServerRegistry_register(r, server_type, server_class) ==
    [r EXCEPT ![server_type] = server_class]

\* get: [value, exc]
ServerRegistry_get(r, server_type) ==
    IF server_type \in DOMAIN r /\ r[server_type] # NoClass
    THEN [value |-> r[server_type], exc |-> NoExc]
    ELSE [value |-> NoClass, exc |-> Exc("KeyError", server_type)]

(***************************************************************************)
(* Python dicts keep insertion order; a dict is a sequence of key/value    *)
(* pairs with pairwise distinct keys.                                      *)
(***************************************************************************)
DictHas(d, k) == \E i \in DOMAIN d : d[i].key = k
DictAt(d, k) == d[CHOOSE i \in DOMAIN d : d[i].key = k].val
DictSet(d, k, x) ==
    IF DictHas(d, k)
    THEN [i \in DOMAIN d |-> IF d[i].key = k THEN [key |-> k, val |-> x] ELSE d[i]]
    ELSE Append(d, [key |-> k, val |-> x])
DictValues(d) == [i \in DOMAIN d |-> d[i].val]

(***************************************************************************)
(* multi_stage_search.py: SearchNode and Workflow.add                      *)
(***************************************************************************)
SearchNode(name, server_name, topk, from_nodes) ==
    [name |-> name, server_name |-> server_name, topk |-> topk,
     from_nodes |-> from_nodes]

\* Workflow.add without the identity test of lines 147-149
MSS_Workflow_add_NoIdentityTest(svs, nds, server, node_name, from_nodes, topk) ==
    LET svs2 == DictSet(svs, server.name, server)
        name == IF node_name # "" THEN node_name ELSE server.name
        node == SearchNode(name, server.name, topk, from_nodes)
    IN  IF \E i \in DOMAIN nds : nds[i].name = name
        THEN [servers |-> svs2, nodes |-> nds, exc |-> Exc("AssertionError", name)]
        ELSE [servers |-> svs2, nodes |-> Append(nds, node), exc |-> NoExc]

\* Workflow.add: the workflow after the call and the exception raised.
\* The server is stored (line 151) before the node name is asserted to be
\* new (line 159).
MSS_Workflow_add(svs, nds, server, node_name, from_nodes, topk) ==
    IF DictHas(svs, server.name) /\ DictAt(svs, server.name).id # server.id
    THEN [servers |-> svs, nodes |-> nds,
          exc |-> Exc("ValueError", server.name)]
    ELSE LET svs2 == DictSet(svs, server.name, server)
             name == IF node_name # "" THEN node_name ELSE server.name
             node == SearchNode(name, server.name, topk, from_nodes)
         IN  IF \E i \in DOMAIN nds : nds[i].name = name
             THEN [servers |-> svs2, nodes |-> nds,
                   exc |-> Exc("AssertionError", name)]
             ELSE [servers |-> svs2, nodes |-> Append(nds, node),
                   exc |-> NoExc]

(***************************************************************************)
(* framework.py: SearchNodeCfg and Workflow.add                            *)
(***************************************************************************)
SearchNodeCfg(name, server, query, topk, from_nodes) ==
    [type |-> "search", name |-> name, server |-> server, query |-> query,
     topk |-> topk, from_nodes |-> from_nodes]

\* Workflow.add: appends, with no check at all
FW_Workflow_add(nds, server, node_name, query, topk, from_nodes) ==
    LET name == IF node_name # "" THEN node_name ELSE server.name
    IN  Append(nds, SearchNodeCfg(name, server, query, topk, from_nodes))

(***************************************************************************)
(* multi_stage_search.py: model_dump / load_from_config                    *)
(***************************************************************************)
StrList(names) == JList([i \in DOMAIN names |-> JStr(names[i])])
AllStr(items) == \A i \in DOMAIN items : IsInst(items[i], "str")
UnStrList(items) == [i \in DOMAIN items |-> items[i].v]

MSS_SearchNode_model_dump(n) ==
    JDict([name |-> JStr(n.name), server_name |-> JStr(n.server_name),
           topk |-> JInt(n.topk), from_nodes |-> StrList(n.from_nodes)])

\* SearchNode.load_from_config that ignores the config's topk
MSS_SearchNode_load_from_config_DefaultTopK(config) ==
    IF ~HasKey(config, "name") \/ ~HasKey(config, "server_name")
    THEN [node |-> SearchNode("", "", 0, <<>>), exc |-> Exc("KeyError", "name")]
    ELSE [node |-> SearchNode(config.v["name"].v, config.v["server_name"].v,
                              DefaultTopK,
                              UnStrList(DictGet(config, "from_nodes", JList(<<>>)).v)),
          exc |-> NoExc]

\* SearchNode.load_from_config: [node, exc]
MSS_SearchNode_load_from_config(config) ==
    LET topk == DictGet(config, "topk", JInt(DefaultTopK))
        from_nodes == DictGet(config, "from_nodes", JList(<<>>))
        fail(e) == [node |-> SearchNode("", "", 0, <<>>), exc |-> e]
    IN  IF ~IsInst(topk, "int")
        THEN fail(Exc("TypeError", "topk must be int"))
        ELSE IF ~IsInst(from_nodes, "list") \/ ~AllStr(from_nodes.v)
        THEN fail(Exc("TypeError", "from_nodes must be list[str]"))
        ELSE IF ~HasKey(config, "name")
        THEN fail(Exc("KeyError", "name"))
        ELSE IF ~HasKey(config, "server_name")
        THEN fail(Exc("KeyError", "server_name"))
        ELSE IF ~IsInst(config.v["name"], "str")
                \/ ~IsInst(config.v["server_name"], "str")
        THEN fail(Exc("TypeError", "name/server_name must be str"))
        ELSE [node |-> SearchNode(config.v["name"].v, config.v["server_name"].v,
                                  topk.v, UnStrList(from_nodes.v)),
              exc |-> NoExc]

MSS_Workflow_model_dump(svs, nds) ==
    JDict([servers |-> JList([i \in DOMAIN svs |-> Server_model_dump(DictValues(svs)[i])]),
           nodes |-> JList([i \in DOMAIN nds |-> MSS_SearchNode_model_dump(nds[i])])])

\* Resolving and constructing one back-end from its config: [server, exc]
LoadServer(server_cfg, r, id) ==
    LET fail(e) == [server |-> NoServer, exc |-> e]
    IN  IF ~HasKey(server_cfg, "type")
        THEN fail(Exc("KeyError", "type"))
        ELSE LET ty == server_cfg.v["type"]
                 got == ServerRegistry_get(r, IF IsInst(ty, "str") THEN ty.v ELSE "")
             IN  IF got.exc # NoExc
                 THEN fail(got.exc)
                 ELSE IF ~HasKey(server_cfg, "name")
                 THEN fail(Exc("KeyError", "name"))
                 ELSE [server |-> Server_load_from_config(server_cfg, id),
                       exc |-> NoExc]

\* the loop over server_configs without the assertion of line 190
RECURSIVE MSS_LoadServers_NoAssert(_, _, _, _, _)
MSS_LoadServers_NoAssert(items, i, servers_dict, r, id) ==
    IF i > Len(items)
    THEN [dict |-> servers_dict, exc |-> NoExc, nextId |-> id]
    ELSE IF ~IsInst(items[i], "dict")
    THEN [dict |-> servers_dict, exc |-> Exc("TypeError", "server must be dict"),
          nextId |-> id]
    ELSE LET ld == LoadServer(items[i], r, id)
         IN  IF ld.exc # NoExc
             THEN [dict |-> servers_dict, exc |-> ld.exc, nextId |-> id]
             ELSE MSS_LoadServers_NoAssert(items, i + 1,
                                           DictSet(servers_dict, ld.server.name, ld.server),
                                           r, id + 1)

\* the loop over server_configs (lines 185-191): [dict, exc, nextId]
RECURSIVE MSS_LoadServers(_, _, _, _, _)
MSS_LoadServers(items, i, servers_dict, r, id) ==
    IF i > Len(items)
    THEN [dict |-> servers_dict, exc |-> NoExc, nextId |-> id]
    ELSE IF ~IsInst(items[i], "dict")
    THEN [dict |-> servers_dict, exc |-> Exc("TypeError", "server must be dict"),
          nextId |-> id]
    ELSE LET ld == LoadServer(items[i], r, id)
         IN  IF ld.exc # NoExc
             THEN [dict |-> servers_dict, exc |-> ld.exc, nextId |-> id]
             ELSE IF DictHas(servers_dict, ld.server.name)
             THEN [dict |-> servers_dict,
                   exc |-> Exc("AssertionError", ld.server.name),
                   nextId |-> id + 1]
             ELSE MSS_LoadServers(items, i + 1,
                                  DictSet(servers_dict, ld.server.name, ld.server),
                                  r, id + 1)

\* the loop over node_configs (lines 193-202): [servers, nodes, exc]
RECURSIVE MSS_LoadNodes(_, _, _, _, _)
MSS_LoadNodes(items, i, svs, nds, servers_dict) ==
    IF i > Len(items)
    THEN [servers |-> svs, nodes |-> nds, exc |-> NoExc]
    ELSE IF ~IsInst(items[i], "dict")
    THEN [servers |-> svs, nodes |-> nds,
          exc |-> Exc("TypeError", "node must be dict")]
    ELSE LET ld == MSS_SearchNode_load_from_config(items[i])
         IN  IF ld.exc # NoExc
             THEN [servers |-> svs, nodes |-> nds, exc |-> ld.exc]
             ELSE IF ~DictHas(servers_dict, ld.node.server_name)
             THEN [servers |-> svs, nodes |-> nds,
                   exc |-> Exc("KeyError", ld.node.server_name)]
             ELSE LET a == MSS_Workflow_add(svs, nds,
                                            DictAt(servers_dict, ld.node.server_name),
                                            ld.node.name, ld.node.from_nodes,
                                            ld.node.topk)
                  IN  IF a.exc # NoExc
                      THEN a
                      ELSE MSS_LoadNodes(items, i + 1, a.servers, a.nodes,
                                         servers_dict)

\* load_from_config that starts the workflow with every declared back-end
MSS_Workflow_load_from_config_KeepsAll(config, r, id) ==
    LET node_configs == DictGet(config, "nodes", JList(<<>>))
        server_configs == DictGet(config, "servers", JList(<<>>))
    IN  IF ~IsInst(node_configs, "list") \/ ~IsInst(server_configs, "list")
        THEN [servers |-> <<>>, nodes |-> <<>>,
              exc |-> Exc("TypeError", "nodes/servers must be list"),
              nextId |-> id]
        ELSE LET sd == MSS_LoadServers(server_configs.v, 1, <<>>, r, id)
             IN  IF sd.exc # NoExc
                 THEN [servers |-> <<>>, nodes |-> <<>>, exc |-> sd.exc,
                       nextId |-> sd.nextId]
                 ELSE LET ln == MSS_LoadNodes(node_configs.v, 1, sd.dict, <<>>, sd.dict)
                      IN  [servers |-> ln.servers, nodes |-> ln.nodes,
                           exc |-> ln.exc, nextId |-> sd.nextId]

\* Workflow.load_from_config: [servers, nodes, exc, nextId].  When exc is an
\* exception nothing is returned; servers and nodes then show how far the
\* workflow under construction had got.
MSS_Workflow_load_from_config(config, r, id) ==
    LET node_configs == DictGet(config, "nodes", JList(<<>>))
        server_configs == DictGet(config, "servers", JList(<<>>))
    IN  IF ~IsInst(node_configs, "list") \/ ~IsInst(server_configs, "list")
        THEN [servers |-> <<>>, nodes |-> <<>>,
              exc |-> Exc("TypeError", "nodes/servers must be list"),
              nextId |-> id]
        ELSE LET sd == MSS_LoadServers(server_configs.v, 1, <<>>, r, id)
             IN  IF sd.exc # NoExc
                 THEN [servers |-> <<>>, nodes |-> <<>>, exc |-> sd.exc,
                       nextId |-> sd.nextId]
                 ELSE LET ln == MSS_LoadNodes(node_configs.v, 1, <<>>, <<>>, sd.dict)
                      IN  [servers |-> ln.servers, nodes |-> ln.nodes,
                           exc |-> ln.exc, nextId |-> sd.nextId]

(***************************************************************************)
(* framework.py: model_dump / load_from_config                             *)
(***************************************************************************)
FW_SearchNodeCfg_model_dump(n) ==
    JDict([type |-> JStr("search"), name |-> JStr(n.name),
           server |-> Server_model_dump(n.server), query |-> JStr(n.query),
           topk |-> JInt(n.topk), from_nodes |-> StrList(n.from_nodes)])

\* SearchNodeCfg.load_from_config: [node, exc]
FW_SearchNodeCfg_load_from_config(config, r, id) ==
    LET fail(e) == [node |-> SearchNodeCfg("", NoServer, "", 0, <<>>), exc |-> e]
    IN  IF ~HasKey(config, "server")
        THEN fail(Exc("KeyError", "server"))
        ELSE IF ~IsInst(config.v["server"], "dict")
        THEN fail(Exc("AttributeError", "get"))
        ELSE IF ~IsInst(DictGet(config.v["server"], "type", JNull), "str")
        THEN fail(Exc("TypeError", "server.type must be str"))
        ELSE LET ld == LoadServer(config.v["server"], r, id)
                 topk == DictGet(config, "topk", JInt(DefaultTopK))
                 from_nodes == DictGet(config, "from_nodes", JList(<<>>))
             IN  IF ld.exc # NoExc
                 THEN fail(ld.exc)
                 ELSE IF ~IsInst(topk, "int")
                 THEN fail(Exc("TypeError", "topk must be int"))
                 ELSE IF ~IsInst(from_nodes, "list") \/ ~AllStr(from_nodes.v)
                 THEN fail(Exc("TypeError", "from_nodes must be list[str]"))
                 ELSE IF ~HasKey(config, "name")
                 THEN fail(Exc("KeyError", "name"))
                 ELSE IF ~HasKey(config, "query")
                 THEN fail(Exc("KeyError", "query"))
                 ELSE IF ~IsInst(config.v["name"], "str")
                         \/ ~IsInst(config.v["query"], "str")
                 THEN fail(Exc("TypeError", "name/query must be str"))
                 ELSE [node |-> SearchNodeCfg(config.v["name"].v, ld.server,
                                              config.v["query"].v, topk.v,
                                              UnStrList(from_nodes.v)),
                       exc |-> NoExc]

FW_Workflow_model_dump(nds) ==
    JDict([type |-> JStr("workflow"),
           nodes |-> JList([i \in DOMAIN nds |-> FW_SearchNodeCfg_model_dump(nds[i])])])

\* the loop over nodes with one back-end instance for all nodes
RECURSIVE FW_LoadNodes_OneInstance(_, _, _, _, _)
FW_LoadNodes_OneInstance(items, i, nds, r, id) ==
    IF i > Len(items)
    THEN [nodes |-> nds, exc |-> NoExc, nextId |-> id + 1]
    ELSE IF ~IsInst(items[i], "dict")
    THEN [nodes |-> nds, exc |-> Exc("TypeError", "node must be dict"),
          nextId |-> id]
    ELSE LET ld == FW_SearchNodeCfg_load_from_config(items[i], r, id)
         IN  IF ld.exc # NoExc
             THEN [nodes |-> nds, exc |-> ld.exc, nextId |-> id]
             ELSE FW_LoadNodes_OneInstance(items, i + 1, Append(nds, ld.node), r, id)

\* the loop over nodes (lines 216-221): [nodes, exc, nextId]
RECURSIVE FW_LoadNodes(_, _, _, _, _)
FW_LoadNodes(items, i, nds, r, id) ==
    IF i > Len(items)
    THEN [nodes |-> nds, exc |-> NoExc, nextId |-> id]
    ELSE IF ~IsInst(items[i], "dict")
    THEN [nodes |-> nds, exc |-> Exc("TypeError", "node must be dict"),
          nextId |-> id]
    ELSE LET ld == FW_SearchNodeCfg_load_from_config(items[i], r, id)
         IN  IF ld.exc # NoExc
             THEN [nodes |-> nds, exc |-> ld.exc, nextId |-> id]
             ELSE FW_LoadNodes(items, i + 1, Append(nds, ld.node), r, id + 1)

\* Workflow.load_from_config: [nodes, exc, nextId]
FW_Workflow_load_from_config(config, r, id) ==
    IF DictGet(config, "type", JNull) # JStr("workflow")
    THEN [nodes |-> <<>>, exc |-> Exc("TypeError", "config.type must be 'workflow'"),
          nextId |-> id]
    ELSE LET nds == DictGet(config, "nodes", JList(<<>>))
         IN  IF ~IsInst(nds, "list")
             THEN [nodes |-> <<>>, exc |-> Exc("TypeError", "nodes must be list"),
                   nextId |-> id]
             ELSE FW_LoadNodes(nds.v, 1, <<>>, r, id)

(***************************************************************************)
(* Hits, outputs and logged actions.                                       *)
(***************************************************************************)
SearchHit(d, sc) == [doc_id |-> d, score |-> sc, payload |-> [origin |-> d]]
Entry(source_server, source_id, payload) ==
    [source_server |-> source_server, source_id |-> source_id, payload |-> payload]
MSS_NodeOutput(node_name, server_name, hits) ==
    [node_name |-> node_name, server_name |-> server_name, hits |-> hits]
FW_NodeOutput(name, hits) == [name |-> name, hits |-> hits]
MSS_ServerAction(node, server_name, op, detail) ==
    [node |-> node, server_name |-> server_name, op |-> op, detail |-> detail]
FW_ServerAction(node, server, op, detail) ==
    [node |-> node, server |-> server, op |-> op, detail |-> detail]

NoOutput == MSS_NodeOutput("", "", <<>>)
NoReturn ==
    [returned |-> FALSE, out |-> NoOutput, trace |-> <<>>, log |-> <<>>,
     outputs |-> <<>>]

(***************************************************************************)
(* multi_stage_search.py: Workflow._gather_entries_from_previous_nodes and *)
(* the pieces of Workflow._exec_search                                     *)
(***************************************************************************)
\* name_to_trace_node (line 207): a later output of a name replaces an earlier
TraceHas(tr, name) == \E i \in DOMAIN tr : tr[i].node_name = name
TraceAt(tr, name) ==
    tr[CHOOSE i \in DOMAIN tr :
           /\ tr[i].node_name = name
           /\ \A j \in DOMAIN tr : tr[j].node_name = name => j <= i]

EntriesOf(previous_node) ==
    [k \in DOMAIN previous_node.hits |->
        Entry(previous_node.server_name, previous_node.hits[k].doc_id,
              previous_node.hits[k].payload)]

\* [entries, exc]: a name with no output in the trace raises KeyError
RECURSIVE MSS_gather_entries_from_previous_nodes(_, _)
MSS_gather_entries_from_previous_nodes(tr, node_names) ==
    IF node_names = <<>>
    THEN [entries |-> <<>>, exc |-> NoExc]
    ELSE IF ~TraceHas(tr, Head(node_names))
    THEN [entries |-> <<>>, exc |-> Exc("KeyError", Head(node_names))]
    ELSE LET rest == MSS_gather_entries_from_previous_nodes(tr, Tail(node_names))
         IN  [entries |-> EntriesOf(TraceAt(tr, Head(node_names))) \o rest.entries,
              exc |-> rest.exc]

\* line 224 (a mutant: add_entries is called whatever was gathered)
MSS_CallsAddEntries_Always(entries) == TRUE

\* line 224: if entries_from_previous_nodes
MSS_CallsAddEntries(entries) == entries # <<>>

\* line 169 (a mutant: the output is put in front of the trace)
MSS_TraceAppend_InFront(tr, out) == <<out>> \o tr

\* line 169: trace.append(out)
MSS_TraceAppend(tr, out) == Append(tr, out)

(***************************************************************************)
(* framework.py: Workflow._gather_doc_ids and the pieces of _exec_search   *)
(***************************************************************************)
RECURSIVE AppendNew(_, _)
AppendNew(ordered, hits) ==
    IF hits = <<>> THEN ordered
    ELSE AppendNew(IF \E i \in DOMAIN ordered : ordered[i] = Head(hits).doc_id
                   THEN ordered
                   ELSE Append(ordered, Head(hits).doc_id),
                   Tail(hits))

\* a name with no output is skipped (lines 228-230)
RECURSIVE FW_gather_doc_ids_from(_, _, _)
FW_gather_doc_ids_from(ordered, outs, node_names) ==
    IF node_names = <<>> THEN ordered
    ELSE FW_gather_doc_ids_from(
             IF DictHas(outs, Head(node_names))
             THEN AppendNew(ordered, DictAt(outs, Head(node_names)).hits)
             ELSE ordered,
             outs, Tail(node_names))

FW_gather_doc_ids(outs, node_names) == FW_gather_doc_ids_from(<<>>, outs, node_names)

\* lines 243-245 (a mutant: ensure is called whenever from_nodes is given)
FW_CallsEnsure_NoInnerTest(from_nodes, mat_ids) == from_nodes # <<>>

\* lines 243-245: if cfg.from_nodes: ... if mat_ids
FW_CallsEnsure(from_nodes, mat_ids) == from_nodes # <<>> /\ mat_ids # <<>>

(***************************************************************************)
(* Inputs of the explored calls.                                           *)
(***************************************************************************)
NodeNameArgs == {"", "n1", "n2"}
FromNodesArgs == {<<>>, <<"n1", "n2">>}
TopKArgs == {1, 2}
Queries == {"q"}
GetTags == Tags \cup {"unknown"}

\* what a back-end search may return, cut to topk by the back-end
HitLists ==
    { <<>>,
      <<SearchHit("d1", 2)>>,
      <<SearchHit("d1", 2), SearchHit("d2", 1)>> }

\* add calls that build the workflows whose runs are explored
AddArgs(server, node_name, from_nodes, topk) ==
    [server |-> server, node_name |-> node_name, from_nodes |-> from_nodes,
     topk |-> topk, query |-> "q"]

Scripts ==
    { <<>>,
      <<AddArgs(ServerA, "n1", <<>>, 2)>>,
      <<AddArgs(ServerA, "n1", <<>>, 2), AddArgs(ServerB, "n2", <<"n1">>, 2)>>,
      <<AddArgs(ServerA, "n1", <<>>, 1), AddArgs(ServerA, "", <<"n1", "n1">>, 2)>>,
      <<AddArgs(ServerA, "n1", <<"n2">>, 2), AddArgs(ServerB, "n2", <<>>, 2)>>,
      <<AddArgs(ServerA, "n1", <<"n1">>, 1)>>,
      <<AddArgs(ServerB, "", <<"zz">>, 1)>>,
      <<AddArgs(ServerA, "n1", <<>>, 2), AddArgs(ServerB, "n1", <<"n1">>, 2)>>,
      <<AddArgs(ServerA, "n1", <<>>, 2), AddArgs(ServerB, "n2", <<>>, 2),
        AddArgs(ServerA, "n3", <<"n1", "n2">>, 2)>> }

SrvCfg(ty, n) == JDict([type |-> JStr(ty), name |-> JStr(n)])
NodeCfg(n, sn, fn) ==
    JDict([name |-> JStr(n), server_name |-> JStr(sn), from_nodes |-> StrList(fn)])
NodeCfgK(n, sn, k) ==
    JDict([name |-> JStr(n), server_name |-> JStr(sn), topk |-> k])

\* values given for "servers" in a config of multi_stage_search.py
CfgServerLists ==
    { JStr("s1"),
      JList(<<>>),
      JList(<<SrvCfg("dummy", "s1")>>),
      JList(<<SrvCfg("dummy", "s1"), SrvCfg("other", "s2")>>),
      JList(<<SrvCfg("other", "s2"), SrvCfg("dummy", "s1")>>),
      JList(<<SrvCfg("dummy", "s1"), SrvCfg("other", "s1")>>),
      JList(<<SrvCfg("dummy", "s1"), JStr("s2")>>) }

\* values given for "nodes" in a config of multi_stage_search.py
CfgNodeLists ==
    { JStr("n1"),
      JList(<<>>),
      JList(<<NodeCfg("n1", "s1", <<>>)>>),
      JList(<<NodeCfg("n1", "s1", <<>>), NodeCfg("n2", "s2", <<"n1">>)>>),
      JList(<<NodeCfg("n1", "s1", <<>>), NodeCfg("n2", "s1", <<"n1">>)>>),
      JList(<<NodeCfg("n1", "s1", <<>>), NodeCfg("n1", "s2", <<>>)>>),
      JList(<<NodeCfg("", "s1", <<>>), NodeCfg("", "s2", <<>>)>>),
      JList(<<NodeCfg("", "s1", <<>>), NodeCfg("s1", "s2", <<>>)>>),
      JList(<<NodeCfg("n1", "s1", <<>>), JStr("n2")>>),
      JList(<<NodeCfgK("n1", "s1", JInt(2)), NodeCfgK("n2", "s1", JStr("2"))>>) }

MSS_Configs ==
    { JDict([servers |-> sl, nodes |-> nl]) : sl \in CfgServerLists, nl \in CfgNodeLists }
    \cup { JDict([servers |-> sl]) : sl \in CfgServerLists }

FWNodeCfg(ty, n, srv, fn) ==
    JDict([type |-> JStr(ty), name |-> JStr(n), server |-> srv,
           query |-> JStr("q"), from_nodes |-> StrList(fn)])

\* values given for "nodes" in a config of framework.py
FWCfgNodeLists ==
    { JStr("n1"),
      JList(<<>>),
      JList(<<FWNodeCfg("search", "n1", SrvCfg("dummy", "s1"), <<>>)>>),
      JList(<<FWNodeCfg("search", "n1", SrvCfg("dummy", "s1"), <<>>),
              FWNodeCfg("search", "n2", SrvCfg("dummy", "s1"), <<"n1">>)>>),
      JList(<<FWNodeCfg("search", "n1", SrvCfg("dummy", "s1"), <<>>),
              FWNodeCfg("search", "n1", SrvCfg("other", "s2"), <<"n1">>)>>),
      JList(<<FWNodeCfg("merge", "n1", SrvCfg("dummy", "s1"), <<>>)>>),
      JList(<<FWNodeCfg("search", "n1", JStr("s1"), <<>>)>>),
      JList(<<FWNodeCfg("search", "n1", SrvCfg("dummy", "s1"), <<>>), JStr("n2")>>) }

FW_Configs ==
    { JDict([type |-> JStr(ty), nodes |-> nl]) :
          ty \in {"workflow", "search"}, nl \in FWCfgNodeLists }
    \cup { JDict([nodes |-> JList(<<>>)]) }

(***************************************************************************)
(* The state after construction: an empty registry, a new Workflow().      *)
(***************************************************************************)
LastNone ==
    [op |-> "none", exc |-> NoExc, server |-> NoServer, node_name |-> "",
     tag |-> "", value |-> "", cfg |-> JNull]

Init ==
    /\ module \in {"mss", "fw"}
    /\ reg = [t \in Tags |-> NoClass]
    /\ regHist = <<>>
    /\ servers = <<>>
    /\ nodes = <<>>
    /\ outputs = <<>>
    /\ log = <<>>
    /\ trace = <<>>
    /\ calls = <<>>
    /\ pc = "idle"
    /\ idx = 0
    /\ cand = JNull
    /\ runNo = 0
    /\ ret = NoReturn
    /\ last = LastNone
    /\ allAddsOk = TRUE
    /\ nextId = FirstFreshId

NotRunning == pc \in {"idle", "done", "failed"}

(***************************************************************************)
(* ServerRegistry.register / ServerRegistry.get                            *)
(***************************************************************************)
Register(t, c) ==
    /\ Len(regHist) < MaxRegs
    /\ reg' = ServerRegistry_register(reg, t, c)
    /\ regHist' = Append(regHist, [tag |-> t, cls |-> c])
    /\ last' = [LastNone EXCEPT !.op = "register", !.tag = t, !.value = c]
    /\ UNCHANGED <<module, wfVars, runVars, allAddsOk, nextId>>

Get(t) ==
    /\ LET g == ServerRegistry_get(reg, t)
       IN  last' = [LastNone EXCEPT !.op = "get", !.tag = t, !.value = g.value,
                                    !.exc = g.exc]
    /\ UNCHANGED <<module, reg, regHist, wfVars, runVars, allAddsOk, nextId>>

(***************************************************************************)
(* Workflow.add                                                            *)
(***************************************************************************)
MSS_Add(server, node_name, from_nodes, topk) ==
    /\ module = "mss"
    /\ NotRunning
    /\ LET a == MSS_Workflow_add(servers, nodes, server, node_name, from_nodes, topk)
       IN  /\ Len(a.nodes) <= MaxNodes
           /\ servers' = a.servers
           /\ nodes' = a.nodes
           /\ last' = [LastNone EXCEPT !.op = "add", !.server = server,
                                        !.node_name = node_name, !.exc = a.exc]
           /\ allAddsOk' = (allAddsOk /\ a.exc = NoExc)
    /\ UNCHANGED <<module, reg, regHist, runVars, nextId>>

FW_Add(server, node_name, query, topk, from_nodes) ==
    /\ module = "fw"
    /\ NotRunning
    /\ Len(nodes) < MaxNodes
    /\ nodes' = FW_Workflow_add(nodes, server, node_name, query, topk, from_nodes)
    /\ last' = [LastNone EXCEPT !.op = "add", !.server = server,
                                 !.node_name = node_name]
    /\ UNCHANGED <<module, reg, regHist, servers, runVars, allAddsOk, nextId>>

(***************************************************************************)
(* wf = Workflow.load_from_config(cfg): the loaded workflow replaces the   *)
(* current one when the call returns; when it raises, nothing is returned  *)
(* and the current workflow stays.                                         *)
(***************************************************************************)
FreshRun ==
    /\ outputs' = <<>>
    /\ log' = <<>>
    /\ trace' = <<>>
    /\ calls' = <<>>
    /\ pc' = "idle"
    /\ idx' = 0
    /\ cand' = JNull
    /\ ret' = NoReturn
    /\ UNCHANGED runNo

MSS_Load(cfg) ==
    /\ module = "mss"
    /\ NotRunning
    /\ nextId < FirstFreshId + MaxFresh
    /\ LET l == MSS_Workflow_load_from_config(cfg, reg, nextId)
       IN  /\ last' = [LastNone EXCEPT !.op = "load", !.cfg = cfg, !.exc = l.exc]
           /\ IF l.exc = NoExc
              THEN /\ servers' = l.servers
                   /\ nodes' = l.nodes
                   /\ nextId' = l.nextId
                   /\ allAddsOk' = TRUE
                   /\ FreshRun
              ELSE UNCHANGED <<wfVars, nextId, allAddsOk, runVars>>
    /\ UNCHANGED <<module, reg, regHist>>

FW_Load(cfg) ==
    /\ module = "fw"
    /\ NotRunning
    /\ nextId < FirstFreshId + MaxFresh
    /\ LET l == FW_Workflow_load_from_config(cfg, reg, nextId)
       IN  /\ last' = [LastNone EXCEPT !.op = "load", !.cfg = cfg, !.exc = l.exc]
           /\ IF l.exc = NoExc
              THEN /\ nodes' = l.nodes
                   /\ nextId' = l.nextId
                   /\ allAddsOk' = TRUE
                   /\ FreshRun
              ELSE UNCHANGED <<nodes, nextId, allAddsOk, runVars>>
    /\ UNCHANGED <<module, reg, regHist, servers>>

(***************************************************************************)
(* multi_stage_search.py: Workflow.search, one step per back-end call      *)
(***************************************************************************)
BackendCall(i, node, server, op, arg, ok) ==
    [idx |-> i, node |-> node, server |-> server, op |-> op, arg |-> arg, ok |-> ok]

\* a detail that counts the names of from_nodes
IngestionDetail_CountsNames(from_nodes, gathered) ==
    [from_nodes |-> from_nodes, count |-> Len(from_nodes)]

\* the detail of a logged add_entries/ensure action
IngestionDetail(from_nodes, gathered) ==
    [from_nodes |-> from_nodes, count |-> Len(gathered)]

\* a candidate count that is 0 when no candidates are passed
FW_CandidateCount_NeverNull(candidates_list) ==
    IF candidates_list = JNull THEN JInt(0) ELSE JInt(Len(candidates_list.v))

\* framework.py line 263: len(candidates_list) if it is not None, else None
FW_CandidateCount(candidates_list) ==
    IF candidates_list = JNull THEN JNull ELSE JInt(Len(candidates_list.v))

\* a raised exception handled by trying the node again
Fail_Retry(e) ==
    /\ pc' = "gather"
    /\ last' = [last EXCEPT !.exc = e]

\* an exception leaves search()/run(): the run is over
Fail(e) ==
    /\ pc' = "failed"
    /\ last' = [last EXCEPT !.exc = e]

\* search without the test of line 163: an empty workflow falls through the loop
MSS_StartSearch_NoAssert(query) ==
    /\ module = "mss"
    /\ NotRunning
    /\ runNo < MaxRuns
    /\ runNo' = runNo + 1
    /\ trace' = <<>>
    /\ log' = <<>>
    /\ calls' = <<>>
    /\ cand' = JNull
    /\ last' = [LastNone EXCEPT !.op = "search", !.value = query]
    /\ IF nodes = <<>>
       THEN /\ pc' = "done"
            /\ idx' = 0
            /\ ret' = [NoReturn EXCEPT !.returned = TRUE]
       ELSE /\ pc' = "gather"
            /\ idx' = 1
            /\ ret' = NoReturn
    /\ UNCHANGED <<module, reg, regHist, wfVars, outputs, allAddsOk, nextId>>

MSS_StartSearch(query) ==
    /\ module = "mss"
    /\ NotRunning
    /\ runNo < MaxRuns
    /\ runNo' = runNo + 1
    /\ trace' = <<>>
    /\ log' = <<>>
    /\ calls' = <<>>
    /\ ret' = NoReturn
    /\ cand' = JNull
    /\ IF nodes = <<>>
       THEN /\ pc' = "failed"
            /\ idx' = 0
            /\ last' = [LastNone EXCEPT !.op = "search", !.value = query,
                                         !.exc = Exc("AssertionError", "no nodes in workflow")]
       ELSE /\ pc' = "gather"
            /\ idx' = 1
            /\ last' = [LastNone EXCEPT !.op = "search", !.value = query]
    /\ UNCHANGED <<module, reg, regHist, wfVars, outputs, allAddsOk, nextId>>

\* _exec_search up to the return of add_entries (lines 221-236)
MSS_ExecGather ==
    /\ module = "mss"
    /\ pc = "gather"
    /\ LET node == nodes[idx]
           g == MSS_gather_entries_from_previous_nodes(trace, node.from_nodes)
       IN  IF ~DictHas(servers, node.server_name)
           THEN Fail(Exc("KeyError", node.server_name)) /\ UNCHANGED <<calls, log>>
           ELSE IF g.exc # NoExc
           THEN Fail(g.exc) /\ UNCHANGED <<calls, log>>
           ELSE IF ~MSS_CallsAddEntries(g.entries)
           THEN pc' = "search" /\ UNCHANGED <<calls, log, last>>
           ELSE LET server == DictAt(servers, node.server_name)
                IN  \/ /\ calls' = Append(calls, BackendCall(idx, node.name, server.id,
                                                             "add_entries", JList(g.entries), TRUE))
                       /\ log' = Append(log, MSS_ServerAction(node.name, server.name,
                                            "add_entries",
                                            IngestionDetail(node.from_nodes, g.entries)))
                       /\ pc' = "search"
                       /\ UNCHANGED last
                    \/ /\ calls' = Append(calls, BackendCall(idx, node.name, server.id,
                                                             "add_entries", JList(g.entries), FALSE))
                       /\ Fail(Exc("BackendError", "add_entries"))
                       /\ UNCHANGED log
    /\ UNCHANGED <<module, reg, regHist, wfVars, outputs, trace, idx, cand, runNo,
                   ret, allAddsOk, nextId>>

\* _exec_search from the search call on, and trace.append (lines 238-254, 169)
MSS_ExecSearch ==
    /\ module = "mss"
    /\ pc = "search"
    /\ LET node == nodes[idx]
           server == DictAt(servers, node.server_name)
       IN  \/ \E hits \in HitLists :
                 /\ Len(hits) <= node.topk
                 /\ LET out == MSS_NodeOutput(node.name, server.name, hits)
                        tr == MSS_TraceAppend(trace, out)
                        lg == Append(log, MSS_ServerAction(node.name, server.name, "search",
                                          [query |-> last.value, topk |-> node.topk]))
                    IN  /\ calls' = Append(calls, BackendCall(idx, node.name, server.id,
                                                              "search", JNull, TRUE))
                        /\ log' = lg
                        /\ trace' = tr
                        /\ IF idx = Len(nodes)
                           THEN /\ pc' = "done"
                                /\ ret' = [NoReturn EXCEPT !.returned = TRUE, !.out = out,
                                                           !.trace = tr, !.log = lg]
                                /\ UNCHANGED idx
                           ELSE /\ pc' = "gather"
                                /\ idx' = idx + 1
                                /\ UNCHANGED ret
                        /\ UNCHANGED last
           \/ /\ calls' = Append(calls, BackendCall(idx, node.name, server.id,
                                                    "search", JNull, FALSE))
              /\ Fail(Exc("BackendError", "search"))
              /\ UNCHANGED <<log, trace, idx, ret>>
    /\ UNCHANGED <<module, reg, regHist, wfVars, outputs, cand, runNo, allAddsOk, nextId>>

(***************************************************************************)
(* framework.py: Workflow.run, one step per back-end call                  *)
(***************************************************************************)
FW_StartRun ==
    /\ module = "fw"
    /\ NotRunning
    /\ runNo < MaxRuns
    /\ runNo' = runNo + 1
    /\ outputs' = <<>>
    /\ calls' = <<>>
    /\ cand' = JNull
    /\ last' = [LastNone EXCEPT !.op = "run"]
    /\ IF nodes = <<>>
       THEN /\ pc' = "done"
            /\ idx' = 0
            /\ ret' = [NoReturn EXCEPT !.returned = TRUE]
       ELSE /\ pc' = "gather"
            /\ idx' = 1
            /\ ret' = NoReturn
    /\ UNCHANGED <<module, reg, regHist, wfVars, log, trace, allAddsOk, nextId>>

\* the dispatch of run (lines 183-186) and _exec_search up to the return of
\* ensure (lines 238-252)
FW_ExecGather ==
    /\ module = "fw"
    /\ pc = "gather"
    /\ LET cfg == nodes[idx]
           mat_ids == FW_gather_doc_ids(outputs, cfg.from_nodes)
       IN  IF cfg.type # "search"
           THEN Fail(Exc("ValueError", cfg.type)) /\ UNCHANGED <<calls, log, cand>>
           ELSE IF cfg.server = NoServer
           THEN Fail(Exc("ValueError", "server is None")) /\ UNCHANGED <<calls, log, cand>>
           ELSE IF ~FW_CallsEnsure(cfg.from_nodes, mat_ids)
           THEN pc' = "search" /\ cand' = JNull /\ UNCHANGED <<calls, log, last>>
           ELSE \/ /\ calls' = Append(calls, BackendCall(idx, cfg.name, cfg.server.id,
                                                         "ensure", JList(mat_ids), TRUE))
                   /\ log' = Append(log, FW_ServerAction(cfg.name, cfg.server.name, "ensure",
                                        IngestionDetail(cfg.from_nodes, mat_ids)))
                   /\ cand' = JList(mat_ids)
                   /\ pc' = "search"
                   /\ UNCHANGED last
                \/ /\ calls' = Append(calls, BackendCall(idx, cfg.name, cfg.server.id,
                                                         "ensure", JList(mat_ids), FALSE))
                   /\ Fail(Exc("BackendError", "ensure"))
                   /\ UNCHANGED <<log, cand>>
    /\ UNCHANGED <<module, reg, regHist, wfVars, outputs, trace, idx, runNo, ret,
                   allAddsOk, nextId>>

\* _exec_search from the search call on, and the store of run (lines 254-267, 187)
FW_ExecSearch ==
    /\ module = "fw"
    /\ pc = "search"
    /\ LET cfg == nodes[idx]
       IN  \/ \E hits \in HitLists :
                 /\ Len(hits) <= cfg.topk
                 /\ LET out == FW_NodeOutput(cfg.name, hits)
                        outs == DictSet(outputs, out.name, out)
                    IN  /\ calls' = Append(calls, BackendCall(idx, cfg.name, cfg.server.id,
                                                              "search", cand, TRUE))
                        /\ log' = Append(log, FW_ServerAction(cfg.name, cfg.server.name,
                                             "search",
                                             [query |-> cfg.query, topk |-> cfg.topk,
                                              candidates |-> FW_CandidateCount(cand)]))
                        /\ outputs' = outs
                        /\ IF idx = Len(nodes)
                           THEN /\ pc' = "done"
                                /\ ret' = [NoReturn EXCEPT !.returned = TRUE,
                                                           !.outputs = outs]
                                /\ UNCHANGED idx
                           ELSE /\ pc' = "gather"
                                /\ idx' = idx + 1
                                /\ UNCHANGED ret
                        /\ UNCHANGED last
           \/ /\ calls' = Append(calls, BackendCall(idx, cfg.name, cfg.server.id,
                                                    "search", cand, FALSE))
              /\ Fail(Exc("BackendError", "search"))
              /\ UNCHANGED <<log, outputs, idx, ret>>
    /\ UNCHANGED <<module, reg, regHist, wfVars, trace, cand, runNo, allAddsOk, nextId>>

(***************************************************************************)
(* The merge node (MergeNodeCfg) and the merge algorithm.  Scores are      *)
(* rationals num/den in lowest terms, so that means and min-max            *)
(* normalisation are exact.                                                *)
(***************************************************************************)
RECURSIVE Gcd(_, _)
Gcd(a, b) == IF b = 0 THEN a ELSE Gcd(b, a % b)
Abs(n) == IF n < 0 THEN -n ELSE n
Rat(n, d) ==
    LET g == Gcd(Abs(n), d)
    IN  [num |-> n \div g, den |-> d \div g]
RatAdd(a, b) == Rat(a.num * b.den + b.num * a.den, a.den * b.den)
RatSub(a, b) == Rat(a.num * b.den - b.num * a.den, a.den * b.den)
RatDiv(a, b) == Rat(a.num * b.den, a.den * b.num)     \* b > 0
RatLess(a, b) == a.num * b.den < b.num * a.den

MergeNodeCfg(name, sources, mode, topk, score_norm, combiner) ==
    [type |-> "merge", name |-> name, sources |-> sources, mode |-> mode,
     topk |-> topk, score_norm |-> score_norm, combiner |-> combiner]

\* a hit emitted by a merge node: the payload is not carried through
MergedHit(d, sc) == [doc_id |-> d, score |-> sc, payload |-> [origin |-> ""]]

\* step 1: a source with no output contributes nothing
SourceHits(outs, s) == IF DictHas(outs, s) THEN DictAt(outs, s).hits ELSE <<>>

\* step 2: the scores of one source, min-max normalised when score_norm
MinScore(hits) ==
    hits[CHOOSE i \in DOMAIN hits :
             \A j \in DOMAIN hits : ~RatLess(hits[j].score, hits[i].score)].score
MaxScore(hits) ==
    hits[CHOOSE i \in DOMAIN hits :
             \A j \in DOMAIN hits : ~RatLess(hits[i].score, hits[j].score)].score
SourceScores(hits, score_norm) ==
    IF ~score_norm \/ hits = <<>>
    THEN [i \in DOMAIN hits |-> hits[i].score]
    ELSE LET lo == MinScore(hits)
             hi == MaxScore(hits)
             scale == IF hi = lo THEN Rat(1, 1) ELSE RatSub(hi, lo)
         IN  [i \in DOMAIN hits |-> RatDiv(RatSub(hits[i].score, lo), scale)]

\* step 3: buckets by document id, in first-seen order
BucketAdd(buckets, d, sc) ==
    IF \E i \in DOMAIN buckets : buckets[i].doc_id = d
    THEN [i \in DOMAIN buckets |->
             IF buckets[i].doc_id = d
             THEN [buckets[i] EXCEPT !.scores = Append(@, sc)]
             ELSE buckets[i]]
    ELSE Append(buckets, [doc_id |-> d, scores |-> <<sc>>])

RECURSIVE BucketHits(_, _, _, _)
BucketHits(buckets, hits, scores, i) ==
    IF i > Len(hits) THEN buckets
    ELSE BucketHits(BucketAdd(buckets, hits[i].doc_id, scores[i]), hits, scores, i + 1)

RECURSIVE BucketSources(_, _, _, _)
BucketSources(buckets, outs, sources, score_norm) ==
    IF sources = <<>> THEN buckets
    ELSE LET hits == SourceHits(outs, Head(sources))
         IN  BucketSources(BucketHits(buckets, hits, SourceScores(hits, score_norm), 1),
                           outs, Tail(sources), score_norm)

\* steps 4, 5: the combined score and the candidates of each mode
RECURSIVE RatSum(_)
RatSum(scores) ==
    IF scores = <<>> THEN Rat(0, 1) ELSE RatAdd(Head(scores), RatSum(Tail(scores)))
Mean(scores) == RatDiv(RatSum(scores), Rat(Len(scores), 1))
MaxOf(scores) ==
    scores[CHOOSE i \in DOMAIN scores :
               \A j \in DOMAIN scores : ~RatLess(scores[i], scores[j])]

NoCombiner == ""
Combine(combiner, scores) ==
    IF combiner = NoCombiner THEN Mean(scores) ELSE MaxOf(scores)

\* intersect that lets every bucket through
Qualifies_Always(mode, scores, nsources) == TRUE

Qualifies(mode, scores, nsources) ==
    mode = "union" \/ Len(scores) = nsources

\* step 7: a stable sort by descending score, and the cut to topk
InsertDesc(sorted, x) ==
    LET k == Cardinality({i \in DOMAIN sorted : ~RatLess(sorted[i].score, x.score)})
    IN  SubSeq(sorted, 1, k) \o <<x>> \o SubSeq(sorted, k + 1, Len(sorted))

RECURSIVE SortDesc(_)
SortDesc(cands) ==
    IF cands = <<>> THEN <<>>
    ELSE InsertDesc(SortDesc(SubSeq(cands, 1, Len(cands) - 1)), cands[Len(cands)])

\* a cut that keeps the last topk candidates
Truncate_Tail(cands, topk) ==
    IF topk = JNull \/ topk.v >= Len(cands) THEN cands
    ELSE SubSeq(cands, Len(cands) - topk.v + 1, Len(cands))

Truncate(cands, topk) ==
    IF topk = JNull \/ topk.v >= Len(cands) THEN cands
    ELSE SubSeq(cands, 1, topk.v)

\* the merge of a node over the outputs produced so far: [hits, exc]
Merge(outs, cfg) ==
    IF cfg.mode \notin {"union", "intersect"}
    THEN [hits |-> <<>>, exc |-> Exc("ConfigError", cfg.mode)]
    ELSE LET buckets == BucketSources(<<>>, outs, cfg.sources, cfg.score_norm)
             Cand(b) == Qualifies(cfg.mode, b.scores, Len(cfg.sources))
             kept == SelectSeq(buckets, Cand)
             cands == [i \in DOMAIN kept |->
                          MergedHit(kept[i].doc_id, Combine(cfg.combiner, kept[i].scores))]
         IN  [hits |-> Truncate(SortDesc(cands), cfg.topk), exc |-> NoExc]

(***************************************************************************)
(* Specifications.                                                         *)
(***************************************************************************)
\* the registry alone
NextReg ==
    \/ \E t \in Tags, c \in Classes : Register(t, c)
    \/ \E t \in GetTags : Get(t)

SpecReg == Init /\ [][NextReg]_vars

\* building a workflow with add
NextAdd ==
    \/ \E s \in Insts, nn \in NodeNameArgs, fn \in FromNodesArgs, k \in TopKArgs :
           MSS_Add(s, nn, fn, k)
    \/ \E s \in Insts, nn \in NodeNameArgs, q \in Queries, fn \in FromNodesArgs,
          k \in TopKArgs : FW_Add(s, nn, q, k, fn)

SpecAdd == Init /\ [][NextAdd]_vars

\* loading configs
NextLoad ==
    \/ \E t \in Tags : Register(t, "DummyServer")
    \/ \E cfg \in MSS_Configs : MSS_Load(cfg)
    \/ \E cfg \in FW_Configs : FW_Load(cfg)

SpecLoad == Init /\ [][NextLoad]_vars

\* dumping a built workflow and loading the dump, in a program that has
\* registered its back-end classes at start-up, as the sample does
\* (samples/multi_stage_search_sample.py line 44)
StartUpRegistrations ==
    <<[tag |-> "dummy", cls |-> "DummyServer"], [tag |-> "other", cls |-> "DummyServer"]>>

RECURSIVE RegisterAll(_, _)
RegisterAll(r, h) ==
    IF h = <<>> THEN r
    ELSE RegisterAll(ServerRegistry_register(r, Head(h).tag, Head(h).cls), Tail(h))

InitRegistered ==
    /\ module \in {"mss", "fw"}
    /\ reg = RegisterAll([t \in Tags |-> NoClass], StartUpRegistrations)
    /\ regHist = StartUpRegistrations
    /\ servers = <<>>
    /\ nodes = <<>>
    /\ outputs = <<>>
    /\ log = <<>>
    /\ trace = <<>>
    /\ calls = <<>>
    /\ pc = "idle"
    /\ idx = 0
    /\ cand = JNull
    /\ runNo = 0
    /\ ret = NoReturn
    /\ last = LastNone
    /\ allAddsOk = TRUE
    /\ nextId = FirstFreshId

NextRoundTrip ==
    \/ \E s \in {ServerA, ServerB}, nn \in NodeNameArgs, fn \in FromNodesArgs,
          k \in TopKArgs : MSS_Add(s, nn, fn, k)
    \/ \E s \in {ServerA, ServerB}, nn \in NodeNameArgs, q \in Queries,
          fn \in FromNodesArgs, k \in TopKArgs : FW_Add(s, nn, q, k, fn)
    \/ MSS_Load(MSS_Workflow_model_dump(servers, nodes))
    \/ FW_Load(FW_Workflow_model_dump(nodes))

SpecRoundTrip == InitRegistered /\ [][NextRoundTrip]_vars

\* running workflows built by the add calls of a script
RECURSIVE MSS_Build(_, _, _)
MSS_Build(svs, nds, script) ==
    IF script = <<>> THEN [servers |-> svs, nodes |-> nds, ok |-> TRUE]
    ELSE LET a == MSS_Workflow_add(svs, nds, Head(script).server, Head(script).node_name,
                                   Head(script).from_nodes, Head(script).topk)
             rest == MSS_Build(a.servers, a.nodes, Tail(script))
         IN  [rest EXCEPT !.ok = rest.ok /\ a.exc = NoExc]

RECURSIVE FW_Build(_, _)
FW_Build(nds, script) ==
    IF script = <<>> THEN nds
    ELSE FW_Build(FW_Workflow_add(nds, Head(script).server, Head(script).node_name,
                                  Head(script).query, Head(script).topk,
                                  Head(script).from_nodes),
                  Tail(script))

InitRun ==
    /\ module \in {"mss", "fw"}
    /\ reg = [t \in Tags |-> NoClass]
    /\ regHist = <<>>
    /\ \E script \in Scripts :
          IF module = "mss"
          THEN LET b == MSS_Build(<<>>, <<>>, script)
               IN  servers = b.servers /\ nodes = b.nodes /\ allAddsOk = b.ok
          ELSE servers = <<>> /\ nodes = FW_Build(<<>>, script) /\ allAddsOk = TRUE
    /\ outputs = <<>>
    /\ log = <<>>
    /\ trace = <<>>
    /\ calls = <<>>
    /\ pc = "idle"
    /\ idx = 0
    /\ cand = JNull
    /\ runNo = 0
    /\ ret = NoReturn
    /\ last = LastNone
    /\ nextId = FirstFreshId

NextRun ==
    \/ \E q \in Queries : MSS_StartSearch(q)
    \/ MSS_ExecGather
    \/ MSS_ExecSearch
    \/ FW_StartRun
    \/ FW_ExecGather
    \/ FW_ExecSearch

SpecRun == InitRun /\ [][NextRun]_vars

\* dumping a workflow of framework.py built by the add calls of a script,
\* loading the dump, and running the loaded workflow
InitLoadRun ==
    /\ module = "fw"
    /\ reg = RegisterAll([t \in Tags |-> NoClass], StartUpRegistrations)
    /\ regHist = StartUpRegistrations
    /\ servers = <<>>
    /\ nodes \in {FW_Build(<<>>, script) : script \in Scripts}
    /\ outputs = <<>>
    /\ log = <<>>
    /\ trace = <<>>
    /\ calls = <<>>
    /\ pc = "idle"
    /\ idx = 0
    /\ cand = JNull
    /\ runNo = 0
    /\ ret = NoReturn
    /\ last = LastNone
    /\ allAddsOk = TRUE
    /\ nextId = FirstFreshId

NextLoadRun ==
    \/ FW_Load(FW_Workflow_model_dump(nodes))
    \/ FW_StartRun
    \/ FW_ExecGather
    \/ FW_ExecSearch

SpecLoadRun == InitLoadRun /\ [][NextLoadRun]_vars

\* merging outputs already produced
MergeHit(d, n) == SearchHit(d, Rat(n, 1))

\* hit lists of the sources: each back-end lists a document once
MergeHitLists ==
    { <<>>,
      <<MergeHit("d1", 1)>>,
      <<MergeHit("d1", 0), MergeHit("d2", 1)>>,
      <<MergeHit("d1", 2), MergeHit("d2", 2), MergeHit("d3", 2)>>,
      <<MergeHit("d2", 3), MergeHit("d3", 2), MergeHit("d1", 1)>>,
      <<MergeHit("d3", 1), MergeHit("d1", 1)>> }

MergeStore(hitsA, hitsB) ==
    <<[key |-> "A", val |-> FW_NodeOutput("A", hitsA)],
      [key |-> "B", val |-> FW_NodeOutput("B", hitsB)]>>

MergeSources == {<<"A">>, <<"A", "B">>, <<"B", "A">>, <<"A", "zz">>, <<"A", "A">>}
MergeModes == {"union", "intersect", "xor"}
MergeTopKs == {JNull, JInt(1), JInt(2)}
Combiners == {NoCombiner, "max"}

MergeNodes ==
    { MergeNodeCfg("m", srcs, mode, k, norm, comb) :
          srcs \in MergeSources, mode \in MergeModes, k \in MergeTopKs,
          norm \in BOOLEAN, comb \in Combiners }

InitMerge ==
    /\ module = "fw"
    /\ reg = [t \in Tags |-> NoClass]
    /\ regHist = <<>>
    /\ servers = <<>>
    /\ nodes \in {<<n>> : n \in MergeNodes}
    /\ outputs \in {MergeStore(a, b) : a \in MergeHitLists, b \in MergeHitLists}
    /\ log = <<>>
    /\ trace = <<>>
    /\ calls = <<>>
    /\ pc = "gather"
    /\ idx = 1
    /\ cand = JNull
    /\ runNo = 1
    /\ ret = NoReturn
    /\ last = [LastNone EXCEPT !.op = "run"]
    /\ allAddsOk = TRUE
    /\ nextId = FirstFreshId

\* the execution of a merge node: its output is stored under its name
ExecMerge ==
    /\ pc = "gather"
    /\ nodes[idx].type = "merge"
    /\ LET cfg == nodes[idx]
           m == Merge(outputs, cfg)
       IN  IF m.exc # NoExc
           THEN Fail(m.exc) /\ UNCHANGED <<outputs, ret>>
           ELSE LET outs == DictSet(outputs, cfg.name, FW_NodeOutput(cfg.name, m.hits))
                IN  /\ outputs' = outs
                    /\ pc' = "done"
                    /\ ret' = [NoReturn EXCEPT !.returned = TRUE, !.outputs = outs]
                    /\ UNCHANGED last
    /\ UNCHANGED <<module, reg, regHist, wfVars, log, trace, calls, idx, cand, runNo,
                   allAddsOk, nextId>>

NextMerge == ExecMerge

SpecMerge == InitMerge /\ [][NextMerge]_vars

(***************************************************************************)
(* Properties.                                                             *)
(***************************************************************************)
\* the node name an add call resolves to (node_name or server.name)
ResolvedName(l) == IF l.node_name # "" THEN l.node_name ELSE l.server.name
NameUsed(nds, n) == \E i \in DOMAIN nds : nds[i].name = n

\* C1: in multi_stage_search.py, an add call whose resulting node name is the
\* name of an already added node fails and leaves the node list and the
\* server map as they were before the call.
C1_DuplicateNodeNameChangesNothing ==
    [][ (module = "mss" /\ last'.op = "add" /\ NameUsed(nodes, ResolvedName(last')))
        => (last'.exc # NoExc /\ nodes' = nodes /\ servers' = servers) ]_vars

\* C3: in multi_stage_search.py the server map holds at most one instance per
\* name; add with a different instance of a registered name fails and changes
\* neither the server map nor the node list; add with the registered instance
\* leaves the server map as it was and at most appends the node.
OneInstancePerName(svs) ==
    \A i, j \in DOMAIN svs : svs[i].val.name = svs[j].val.name => i = j

C3_OneInstancePerName ==
    [][ module = "mss" =>
        /\ OneInstancePerName(servers')
        /\ (last'.op = "add" /\ DictHas(servers, last'.server.name)) =>
             IF DictAt(servers, last'.server.name).id # last'.server.id
             THEN /\ last'.exc.type = "ValueError"
                  /\ servers' = servers
                  /\ nodes' = nodes
             ELSE /\ servers' = servers
                  /\ IF NameUsed(nodes, ResolvedName(last'))
                     THEN last'.exc # NoExc /\ nodes' = nodes
                     ELSE /\ last'.exc = NoExc
                          /\ Len(nodes') = Len(nodes) + 1
                          /\ SubSeq(nodes', 1, Len(nodes)) = nodes
                          /\ nodes'[Len(nodes')].name = ResolvedName(last')
                          /\ nodes'[Len(nodes')].server_name = last'.server.name
      ]_vars

\* a second instance of a registered name has just been refused while two
\* nodes share the registered instance
C3_Witness ==
    /\ module = "mss"
    /\ last.op = "add"
    /\ last.exc.type = "ValueError"
    /\ Len(nodes) = 2
    /\ Len(servers) = 1

\* C9: get(t) returns the class of the most recent register(t, .), whatever
\* was registered under other tags; get of a tag never registered raises a
\* KeyError naming t; get leaves the registry as it was.
RECURSIVE MostRecent(_, _)
MostRecent(h, t) ==
    IF h = <<>> THEN NoClass
    ELSE IF h[Len(h)].tag = t THEN h[Len(h)].cls
    ELSE MostRecent(SubSeq(h, 1, Len(h) - 1), t)

C9_GetReturnsMostRecent ==
    [][ last'.op = "get" =>
        /\ reg' = reg
        /\ regHist' = regHist
        /\ IF MostRecent(regHist, last'.tag) # NoClass
           THEN last'.exc = NoExc /\ last'.value = MostRecent(regHist, last'.tag)
           ELSE last'.exc = Exc("KeyError", last'.tag) ]_vars

\* a tag registered twice with different classes, another tag registered in
\* between or not at all, and get has returned
C9_Witness ==
    /\ last.op = "get"
    /\ last.exc = NoExc
    /\ \E i, j \in DOMAIN regHist :
          /\ i < j
          /\ regHist[i].tag = last.tag
          /\ regHist[j].tag = last.tag
          /\ regHist[i].cls # regHist[j].cls

\* the conditions C10 names, read off a config
CfgServers(c) == DictGet(c, "servers", JList(<<>>))
CfgNodes(c) == DictGet(c, "nodes", JList(<<>>))
ListOfMaps(x) == IsInst(x, "list") /\ \A i \in DOMAIN x.v : IsInst(x.v[i], "dict")
StrField(d, k) == IsInst(d, "dict") /\ HasKey(d, k) /\ IsInst(d.v[k], "str")
Items(x) == IF IsInst(x, "list") THEN x.v ELSE <<>>

UnregisteredTag(c, r) ==
    \E i \in DOMAIN Items(CfgServers(c)) :
        LET d == Items(CfgServers(c))[i]
        IN  StrField(d, "type") /\ (d.v["type"].v \notin DOMAIN r \/ r[d.v["type"].v] = NoClass)

SameServerName(c) ==
    \E i, j \in DOMAIN Items(CfgServers(c)) :
        LET d == Items(CfgServers(c))[i]
            e == Items(CfgServers(c))[j]
        IN  i # j /\ StrField(d, "name") /\ StrField(e, "name")
            /\ d.v["name"].v = e.v["name"].v

UndeclaredServer(c) ==
    \E i \in DOMAIN Items(CfgNodes(c)) :
        LET n == Items(CfgNodes(c))[i]
        IN  /\ StrField(n, "server_name")
            /\ ~\E j \in DOMAIN Items(CfgServers(c)) :
                   LET d == Items(CfgServers(c))[j]
                   IN  StrField(d, "name") /\ d.v["name"].v = n.v["server_name"].v

SameNodeName(c) ==
    \E i, j \in DOMAIN Items(CfgNodes(c)) :
        LET n == Items(CfgNodes(c))[i]
            m == Items(CfgNodes(c))[j]
        IN  i # j /\ StrField(n, "name") /\ StrField(m, "name")
            /\ n.v["name"].v = m.v["name"].v

\* the name a config node gets in the workflow: its name, or the name of its
\* back-end when its name is empty
CfgNodeName(n) == IF n.v["name"].v # "" THEN n.v["name"].v ELSE n.v["server_name"].v

SameResultingNodeName(c) ==
    \E i, j \in DOMAIN Items(CfgNodes(c)) :
        LET n == Items(CfgNodes(c))[i]
            m == Items(CfgNodes(c))[j]
        IN  i # j /\ StrField(n, "name") /\ StrField(m, "name")
            /\ StrField(n, "server_name") /\ StrField(m, "server_name")
            /\ CfgNodeName(n) = CfgNodeName(m)

NotListsOfMaps(c) == ~ListOfMaps(CfgServers(c)) \/ ~ListOfMaps(CfgNodes(c))

\* C10 as stated: load_from_config of multi_stage_search.py raises, and
\* returns no workflow, when the config has a back-end of an unregistered
\* type, two back-ends of one name, a node on an undeclared back-end, two
\* nodes of one name, or a nodes/servers value that is no list of maps.
C10_InvalidConfigFails ==
    [][ (module = "mss" /\ last'.op = "load"
         /\ (\/ UnregisteredTag(last'.cfg, reg)
             \/ SameServerName(last'.cfg)
             \/ UndeclaredServer(last'.cfg)
             \/ SameNodeName(last'.cfg)
             \/ NotListsOfMaps(last'.cfg)))
        => (last'.exc # NoExc /\ servers' = servers /\ nodes' = nodes) ]_vars

\* C10 as amended: the same, with "two nodes of one name" read as two nodes
\* whose resulting names are equal, the resulting name of a node with an
\* empty name being the name of its back-end.
C10_InvalidConfigFails_Amended ==
    [][ (module = "mss" /\ last'.op = "load"
         /\ (\/ UnregisteredTag(last'.cfg, reg)
             \/ SameServerName(last'.cfg)
             \/ UndeclaredServer(last'.cfg)
             \/ SameResultingNodeName(last'.cfg)
             \/ NotListsOfMaps(last'.cfg)))
        => (last'.exc # NoExc /\ servers' = servers /\ nodes' = nodes) ]_vars

\* a config with registered, distinct back-ends and two nodes of one
\* resulting name has been refused while an earlier workflow is loaded
C10_Witness ==
    /\ module = "mss"
    /\ last.op = "load"
    /\ last.exc.type = "AssertionError"
    /\ SameResultingNodeName(last.cfg)
    /\ ~SameServerName(last.cfg)
    /\ Len(nodes) > 0

\* C2: for a workflow built by successful add calls whose back-end types are
\* registered, loading its dump succeeds and the loaded workflow dumps to
\* the same config, the order of servers and of nodes included.
Dump(m, svs, nds) ==
    IF m = "mss" THEN MSS_Workflow_model_dump(svs, nds)
    ELSE FW_Workflow_model_dump(nds)

TypesRegistered(m, svs, nds, r) ==
    IF m = "mss"
    THEN \A i \in DOMAIN svs : ServerRegistry_get(r, svs[i].val.type).exc = NoExc
    ELSE \A i \in DOMAIN nds : ServerRegistry_get(r, nds[i].server.type).exc = NoExc

C2_RoundTrip ==
    [][ (last'.op = "load" /\ last'.cfg = Dump(module, servers, nodes)
         /\ allAddsOk /\ TypesRegistered(module, servers, nodes, reg))
        => (last'.exc = NoExc
            /\ Dump(module, servers', nodes') = Dump(module, servers, nodes)) ]_vars

\* the dump of a workflow with two back-ends, the second registered first
\* by name order and two nodes, has been loaded
C2_Witness ==
    /\ last.op = "load"
    /\ last.exc = NoExc
    /\ Len(nodes) = 2
    /\ Len(last.cfg.v["nodes"].v) = 2
    /\ \A i \in DOMAIN nodes : nodes[i].from_nodes # <<>> \/ nodes[i].topk # DefaultTopK
    /\ module = "mss"
    /\ Len(servers) = 2
    /\ servers[1].key = "s2"
    /\ servers[1].val.id >= FirstFreshId

\* the node the run is at, and the outputs produced so far in this run
HasOutput(name) ==
    IF module = "mss" THEN TraceHas(trace, name) ELSE DictHas(outputs, name)
OutputHits(name) ==
    IF module = "mss" THEN TraceAt(trace, name).hits ELSE DictAt(outputs, name).hits
Extends(s2, s1) == Len(s2) = Len(s1) + 1 /\ SubSeq(s2, 1, Len(s1)) = s1
\* exactly one search was called and logged, for node n
OneSearch(n) ==
    /\ Extends(log', log)
    /\ log'[Len(log')].op = "search"
    /\ log'[Len(log')].node = n.name
    /\ Extends(calls', calls)
    /\ calls'[Len(calls')].op = "search"
    /\ calls'[Len(calls')].idx = idx

\* C4: a search node whose from_nodes names a node with no output yet in the
\* current run makes the run fail, in search (multi_stage_search.py) and in
\* run (framework.py); no back-end call is made for the node.
C4_MissingUpstreamFails ==
    [][ (pc = "gather"
         /\ \E k \in DOMAIN nodes[idx].from_nodes : ~HasOutput(nodes[idx].from_nodes[k]))
        => (pc' = "failed" /\ calls' = calls) ]_vars

\* C5: executing a search node with empty from_nodes makes no
\* ensure/add_entries call and appends exactly one action, a search action of
\* that node, to the log (when the back-end's search returns).
C5_EmptyFromNodesOnlySearches ==
    [][ (pc \in {"gather", "search"} /\ nodes[idx].from_nodes = <<>>) =>
        IF pc = "gather"
        THEN pc' = "search" /\ calls' = calls /\ log' = log /\ cand' = JNull
        ELSE IF pc' = "failed" THEN log' = log ELSE OneSearch(nodes[idx]) ]_vars

\* the second node, with empty from_nodes, has been executed after a node
\* that produced hits; the log holds the two search actions and nothing else
C5_Witness ==
    /\ module = "mss"
    /\ Len(trace) = 2
    /\ nodes[2].from_nodes = <<>>
    /\ trace[1].hits # <<>>
    /\ Len(log) = 2
    /\ log[2].op = "search"
    /\ log[2].node = nodes[2].name

\* C6: executing a search node whose from_nodes is non-empty and names only
\* nodes that produced zero hits makes no ensure/add_entries call, logs no
\* ingestion, does not fail, and calls and logs exactly one search (when the
\* back-end's search returns).
AllUpstreamEmpty(n) ==
    /\ n.from_nodes # <<>>
    /\ \A k \in DOMAIN n.from_nodes :
          HasOutput(n.from_nodes[k]) /\ OutputHits(n.from_nodes[k]) = <<>>

C6_EmptyUpstreamOnlySearches ==
    [][ (pc \in {"gather", "search"} /\ AllUpstreamEmpty(nodes[idx])) =>
        IF pc = "gather"
        THEN pc' = "search" /\ calls' = calls /\ log' = log /\ cand' = JNull
        ELSE IF pc' = "failed" THEN log' = log ELSE OneSearch(nodes[idx]) ]_vars

\* a run of framework.py has completed in which the second node names the
\* first, the first returned no hit, and only the two searches were called
C6_Witness ==
    /\ module = "fw"
    /\ pc = "done"
    /\ Len(nodes) = 2
    /\ nodes[2].from_nodes = <<"n1">>
    /\ DictHas(outputs, "n1")
    /\ DictAt(outputs, "n1").hits = <<>>
    /\ Len(calls) = 2
    /\ \A k \in DOMAIN calls : calls[k].op = "search"

\* C7: after each completed run the log holds only the actions of that run
\* and the outputs only those of that run, in run (framework.py) and in
\* search (multi_stage_search.py).
Returned(c) == c.ok
CallView(c) == [k \in DOMAIN c |-> [node |-> c[k].node, op |-> c[k].op]]
SearchedNodes == {calls[k].node : k \in {j \in DOMAIN calls : calls[j].op = "search"}}

C7_RunStartsFresh ==
    pc = "done" =>
        /\ CallView(log) = CallView(SelectSeq(calls, Returned))
        /\ module = "fw" => {outputs[i].key : i \in DOMAIN outputs} = SearchedNodes
        /\ module = "mss" => {trace[i].node_name : i \in DOMAIN trace} = SearchedNodes

\* C8: a search (multi_stage_search.py) that completes has executed every
\* node once, in declaration order: the trace has one output per node, with
\* the node's name and its back-end's name; every back-end call for a node
\* is made when the outputs of all nodes before it are in the trace; the
\* first component returned is the last element of the trace.
SearchCallsFor(i) == {k \in DOMAIN calls : calls[k].op = "search" /\ calls[k].idx = i}

C8_NodesRunInOrder ==
    module = "mss" =>
        /\ \A k \in DOMAIN calls :
              /\ calls[k].idx <= Len(trace) + 1
              /\ \A j \in DOMAIN calls : j < k => calls[j].idx <= calls[k].idx
        /\ pc = "done" =>
              /\ ret.returned
              /\ ret.trace = trace
              /\ Len(trace) = Len(nodes)
              /\ \A i \in DOMAIN nodes :
                    /\ trace[i].node_name = nodes[i].name
                    /\ trace[i].server_name = DictAt(servers, nodes[i].server_name).name
                    /\ Cardinality(SearchCallsFor(i)) = 1
              /\ ret.out = trace[Len(trace)]

\* a search over three nodes has completed, with entries forwarded
C8_Witness ==
    /\ module = "mss"
    /\ pc = "done"
    /\ Len(nodes) = 3
    /\ \E k \in DOMAIN calls : calls[k].op = "add_entries"

\* C11: when a back-end call (ensure/add_entries or search) fails while node
\* i is executed, the run aborts in that step: nothing is logged, no output is
\* recorded and nothing is returned; after the failure no further back-end
\* call is made in that run (no retry, no call for a later node), so the
\* failed call is the last call of the run and it was made for node i.
FailedCallAppended ==
    /\ Extends(calls', calls)
    /\ ~calls'[Len(calls')].ok

C11_BackendFailureAborts ==
    [][ /\ FailedCallAppended =>
             /\ pc' = "failed"
             /\ calls'[Len(calls')].idx = idx
             /\ calls'[Len(calls')].op \in {"ensure", "add_entries", "search"}
             /\ log' = log
             /\ outputs' = outputs
             /\ trace' = trace
             /\ ret' = NoReturn
             /\ \A k \in DOMAIN calls : calls[k].ok /\ calls[k].idx <= idx
        /\ pc = "failed" => (calls' = calls \/ (calls' = <<>> /\ runNo' = runNo + 1))
      ]_vars

\* the search of the second of three nodes has failed after the first node's
\* search and the second node's ingestion returned
C11_Witness ==
    /\ pc = "failed"
    /\ last.exc = Exc("BackendError", "search")
    /\ Len(nodes) = 3
    /\ idx = 2
    /\ Len(calls) >= 2
    /\ ~calls[Len(calls)].ok

\* C12: in framework.py the node names of a workflow are pairwise distinct
\* in every state reached by add and load_from_config.
NamesDistinct(nds) == \A i, j \in DOMAIN nds : nds[i].name = nds[j].name => i = j

C12_FW_NodeNamesDistinct == module = "fw" => NamesDistinct(nodes)

\* the merge node that was executed, its result, and what its sources hold
MergeCfg == nodes[1]
MergeResult == DictAt(outputs, MergeCfg.name).hits
IdsOf(s) == {SourceHits(outputs, s)[i].doc_id : i \in DOMAIN SourceHits(outputs, s)}
UnionIds == UNION {IdsOf(MergeCfg.sources[k]) : k \in DOMAIN MergeCfg.sources}
IntersectIds == {d \in UnionIds : \A k \in DOMAIN MergeCfg.sources : d \in IdsOf(MergeCfg.sources[k])}
CandidateIds == IF MergeCfg.mode = "union" THEN UnionIds ELSE IntersectIds
ResultIds == {MergeResult[i].doc_id : i \in DOMAIN MergeResult}

\* the score source s gives document d (normalised when the node says so)
ScoreIn(s, d) ==
    LET hits == SourceHits(outputs, s)
    IN  SourceScores(hits, MergeCfg.score_norm)[CHOOSE i \in DOMAIN hits : hits[i].doc_id = d]

\* the sum of d's per-source scores over the first k listed sources
RECURSIVE ScoreSum(_, _)
ScoreSum(d, k) ==
    IF k = 0 THEN Rat(0, 1)
    ELSE IF d \in IdsOf(MergeCfg.sources[k])
    THEN RatAdd(ScoreSum(d, k - 1), ScoreIn(MergeCfg.sources[k], d))
    ELSE ScoreSum(d, k - 1)

MeanScore(d) ==
    RatDiv(ScoreSum(d, Len(MergeCfg.sources)),
           Rat(Cardinality({k \in DOMAIN MergeCfg.sources : d \in IdsOf(MergeCfg.sources[k])}), 1))

ExampleA == <<MergeHit("d1", 1)>>
ExampleB == <<MergeHit("d1", 0), MergeHit("d2", 1)>>
IsExample ==
    /\ outputs[1].val.hits = ExampleA
    /\ outputs[2].val.hits = ExampleB
    /\ MergeCfg.sources = <<"A", "B">>
    /\ ~MergeCfg.score_norm
    /\ MergeCfg.combiner = NoCombiner
    /\ MergeCfg.topk = JNull

\* C13: a merge node yields, in union mode, every document of at least one
\* listed source and, in intersect mode, exactly the documents of every listed
\* source (all of them when topk is unset, each once); without a custom
\* combiner each result's score is the mean of its per-source scores; results
\* are in descending score order; for A=[(d1,1)], B=[(d1,0),(d2,1)] without
\* normalisation union gives [(d2,1),(d1,1/2)] and intersect [(d1,1/2)].
C13_MergeUnionIntersect ==
    (pc = "done" /\ MergeCfg.type = "merge") =>
        /\ ResultIds \subseteq CandidateIds
        /\ Cardinality(ResultIds) = Len(MergeResult)
        /\ MergeCfg.topk = JNull => ResultIds = CandidateIds
        /\ MergeCfg.combiner = NoCombiner =>
              \A i \in DOMAIN MergeResult :
                  MergeResult[i].score = MeanScore(MergeResult[i].doc_id)
        /\ \A i, j \in DOMAIN MergeResult :
              i < j => ~RatLess(MergeResult[i].score, MergeResult[j].score)
        /\ (IsExample /\ MergeCfg.mode = "union") =>
              MergeResult = <<MergedHit("d2", Rat(1, 1)), MergedHit("d1", Rat(1, 2))>>
        /\ (IsExample /\ MergeCfg.mode = "intersect") =>
              MergeResult = <<MergedHit("d1", Rat(1, 2))>>

\* the intersect merge of the example has been computed
C13_Witness ==
    /\ pc = "done"
    /\ IsExample
    /\ MergeCfg.mode = "intersect"
    /\ Len(MergeResult) = 1
    /\ UnionIds = {"d1", "d2"}

\* the hits of the listed sources in the order the merge walks them, and the
\* place where a document is first seen
RECURSIVE WalkSources(_)
WalkSources(sources) ==
    IF sources = <<>> THEN <<>>
    ELSE SourceHits(outputs, Head(sources)) \o WalkSources(Tail(sources))

FirstSeen(d) ==
    CHOOSE i \in DOMAIN WalkSources(MergeCfg.sources) :
        /\ WalkSources(MergeCfg.sources)[i].doc_id = d
        /\ \A j \in 1..(i - 1) : WalkSources(MergeCfg.sources)[j].doc_id # d

\* the combined score of a candidate
CombinedScore(d) ==
    LET b == BucketSources(<<>>, outputs, MergeCfg.sources, MergeCfg.score_norm)
    IN  Combine(MergeCfg.combiner, b[CHOOSE i \in DOMAIN b : b[i].doc_id = d].scores)

\* candidate d ranks before candidate e
RanksBefore(d, e) ==
    \/ RatLess(CombinedScore(e), CombinedScore(d))
    \/ CombinedScore(e) = CombinedScore(d) /\ FirstSeen(d) < FirstSeen(e)

\* C14: a merge node with topk = k returns min(k, number of candidates)
\* hits, in either mode, with topk unset all candidates; the hits returned
\* are the highest ranking candidates, where a candidate ranks before
\* another when its combined score is higher or, the scores being equal,
\* when it was seen first; the hits are returned in that order.
C14_MergeTopK ==
    (pc = "done" /\ MergeCfg.type = "merge") =>
        /\ Len(MergeResult) =
              IF MergeCfg.topk # JNull /\ MergeCfg.topk.v < Cardinality(CandidateIds)
              THEN MergeCfg.topk.v
              ELSE Cardinality(CandidateIds)
        /\ \A i \in DOMAIN MergeResult :
              /\ MergeResult[i].doc_id \in CandidateIds
              /\ MergeResult[i].score = CombinedScore(MergeResult[i].doc_id)
        /\ \A i, j \in DOMAIN MergeResult :
              i < j => RanksBefore(MergeResult[i].doc_id, MergeResult[j].doc_id)
        /\ \A i \in DOMAIN MergeResult : \A d \in CandidateIds \ ResultIds :
              RanksBefore(MergeResult[i].doc_id, d)

\* topk = 1 over three candidates, two of which tie for the highest score:
\* the one seen first is returned
C14_Witness ==
    /\ pc = "done"
    /\ MergeCfg.topk = JInt(1)
    /\ Cardinality(CandidateIds) = 3
    /\ Len(MergeResult) = 1
    /\ \E d \in CandidateIds \ ResultIds : CombinedScore(d) = MergeResult[1].score

\* the walk of C15: from_nodes in list order, each upstream output's hits in
\* output order (entries in multi_stage_search.py, doc ids in framework.py),
\* keeping the first occurrence of each
RECURSIVE WalkUpstream(_)
WalkUpstream(names) ==
    IF names = <<>> THEN <<>>
    ELSE (IF ~HasOutput(Head(names)) THEN <<>>
          ELSE IF module = "mss" THEN EntriesOf(TraceAt(trace, Head(names)))
          ELSE [k \in DOMAIN OutputHits(Head(names)) |-> OutputHits(Head(names))[k].doc_id])
         \o WalkUpstream(Tail(names))

RECURSIVE FirstOccurrences(_)
FirstOccurrences(s) ==
    IF s = <<>> THEN <<>>
    ELSE LET front == FirstOccurrences(SubSeq(s, 1, Len(s) - 1))
         IN  IF \E i \in DOMAIN front : front[i] = s[Len(s)]
             THEN front
             ELSE Append(front, s[Len(s)])

IngestionCalled ==
    /\ Extends(calls', calls)
    /\ calls'[Len(calls')].op \in {"ensure", "add_entries"}

\* C15: the sequence handed to ensure/add_entries for a node is the walk over
\* its from_nodes with only the first occurrence of each document kept.
C15_GatherIsDeduplicatedWalk ==
    [][ IngestionCalled =>
            calls'[Len(calls')].arg =
                JList(FirstOccurrences(WalkUpstream(nodes[idx].from_nodes))) ]_vars

\* the back-end calls of the run that returned, and the actions the run has
\* logged (one per returned call; in framework.py the log object also holds
\* the actions of earlier runs, in front of these)
ReturnedCalls == SelectSeq(calls, Returned)
LogOfRun == SubSeq(log, Len(log) - Len(ReturnedCalls) + 1, Len(log))
IsIngestion(op) == op \in {"ensure", "add_entries"}

\* C16: the actions a run logs are in node declaration order; a node whose
\* gathered sequence is non-empty gets exactly one ingestion action, with
\* detail.count the size of the sequence handed to the back-end and
\* detail.from_nodes the node's from_nodes, immediately followed by the
\* node's single search action; a node whose gathered sequence is empty gets
\* the search action only; the ingestion call precedes the search call.
C16_LogOrder ==
    /\ [](/\ Len(ReturnedCalls) <= Len(log)
          /\ \A k \in DOMAIN ReturnedCalls :
                LET c == ReturnedCalls[k]
                    a == LogOfRun[k]
                IN  /\ a.node = nodes[c.idx].name
                    /\ a.op = c.op
                    /\ \A j \in DOMAIN ReturnedCalls :
                          /\ j < k => ReturnedCalls[j].idx <= c.idx
                          /\ (j # k /\ ReturnedCalls[j].idx = c.idx)
                                => ReturnedCalls[j].op # c.op
                    /\ IsIngestion(c.op) =>
                          /\ a.detail.count = Len(c.arg.v)
                          /\ a.detail.count > 0
                          /\ a.detail.from_nodes = nodes[c.idx].from_nodes
                          /\ k < Len(ReturnedCalls) =>
                                /\ ReturnedCalls[k + 1].op = "search"
                                /\ ReturnedCalls[k + 1].idx = c.idx
                          /\ k = Len(ReturnedCalls) => pc \in {"search", "failed"}
          /\ pc = "done" =>
                \A i \in DOMAIN nodes :
                    \E m \in DOMAIN ReturnedCalls :
                        ReturnedCalls[m].idx = i /\ ReturnedCalls[m].op = "search")
    /\ [][ (pc = "gather" /\ pc' = "search") =>
               IF WalkUpstream(nodes[idx].from_nodes) # <<>>
               THEN IngestionCalled /\ calls'[Len(calls')].ok /\ Extends(log', log)
               ELSE calls' = calls /\ log' = log ]_vars

\* a search over three nodes has completed; the third node gathered from two
\* upstream nodes and its ingestion action, counting at least two entries,
\* is followed by its search action at the end of the log
C16_Witness ==
    /\ module = "mss"
    /\ pc = "done"
    /\ Len(nodes) = 3
    /\ Len(log) = 4
    /\ log[3].op = "add_entries"
    /\ log[3].node = nodes[3].name
    /\ log[3].detail.count >= 2
    /\ log[4].op = "search"

\* C17: in framework.py, loading a config that holds a node whose type is
\* not "search" fails and returns no workflow.
HasNonSearchNode(c) ==
    \E i \in DOMAIN Items(CfgNodes(c)) :
        LET n == Items(CfgNodes(c))[i]
        IN  IsInst(n, "dict") /\ DictGet(n, "type", JNull) # JStr("search")

C17_UnknownKindFails ==
    [][ (module = "fw" /\ last'.op = "load" /\ HasNonSearchNode(last'.cfg))
        => (last'.exc # NoExc /\ nodes' = nodes) ]_vars

\* C18: in framework.py the candidates of a node's search call are the ids
\* handed to ensure for that node just before; they are null exactly when
\* the gathered set is empty, and so is the logged candidate count, which
\* otherwise equals the count logged by the ensure action.
SearchCalled ==
    /\ Extends(calls', calls)
    /\ calls'[Len(calls')].op = "search"

EnsuredJustBefore ==
    /\ calls # <<>>
    /\ calls[Len(calls)].op = "ensure"
    /\ calls[Len(calls)].idx = idx

C18_CandidatesAreEnsuredIds ==
    [][ (module = "fw" /\ SearchCalled) =>
            LET c == calls'[Len(calls')]
                gathered == FirstOccurrences(WalkUpstream(nodes[idx].from_nodes))
            IN  /\ c.idx = idx
                /\ (c.arg = JNull) = (gathered = <<>>)
                /\ (c.arg = JNull) = ~EnsuredJustBefore
                /\ c.arg # JNull =>
                      /\ c.arg = calls[Len(calls)].arg
                      /\ c.arg = JList(gathered)
                /\ c.ok =>
                      /\ Extends(log', log)
                      /\ (log'[Len(log')].detail.candidates = JNull) = (c.arg = JNull)
                      /\ c.arg # JNull =>
                            /\ log[Len(log)].op = "ensure"
                            /\ log'[Len(log')].detail.candidates.v
                                   = log[Len(log)].detail.count ]_vars

\* a run has completed whose last node searched among two candidates
\* gathered from two upstream nodes
C18_Witness ==
    /\ module = "fw"
    /\ pc = "done"
    /\ Len(nodes) = 3
    /\ calls[Len(calls)].op = "search"
    /\ calls[Len(calls)].arg # JNull
    /\ Len(calls[Len(calls)].arg.v) = 2
    /\ log[Len(log)].detail.candidates = JInt(2)

\* C19: in multi_stage_search.py, in every state reached by add and
\* load_from_config, every node's server_name is a key of the server map,
\* every key is the name of the instance stored under it, and every stored
\* server is referenced by a node.
NodesHaveServers == \A i \in DOMAIN nodes : DictHas(servers, nodes[i].server_name)
KeysAreNames == \A i \in DOMAIN servers : servers[i].key = servers[i].val.name
ServersAreReferenced ==
    \A i \in DOMAIN servers : \E j \in DOMAIN nodes : nodes[j].server_name = servers[i].key

C19_ServerMapMatchesNodes ==
    module = "mss" => (NodesHaveServers /\ KeysAreNames /\ ServersAreReferenced)

\* the back-end instance node i of the workflow calls
InstanceOf(nds, i) == nds[i].server.id
\* the ids handed to ensure on back-end instance s in the run in progress
EnsureCallsOn(s) == {k \in DOMAIN calls : calls[k].op = "ensure" /\ calls[k].server = s}

\* C20: load_from_config of framework.py builds one new back-end instance
\* per node: the nodes of the loaded workflow refer to pairwise distinct
\* instances, none of them an instance that existed before, also when the
\* dumped nodes shared one instance; in a run of the loaded workflow every
\* call goes to the instance of its node, so the instance a node searches
\* has received no ensure call made for another node.
C20_LoadedNodesHaveOwnInstances ==
    /\ [][ (last'.op = "load" /\ last'.exc = NoExc) =>
             /\ Len(nodes') = Len(nodes)
             /\ \A i \in DOMAIN nodes' :
                   /\ InstanceOf(nodes', i) >= nextId
                   /\ InstanceOf(nodes', i) < nextId'
                   /\ nodes'[i].server.name = nodes[i].server.name
                   /\ \A j \in DOMAIN nodes' :
                         i # j => InstanceOf(nodes', i) # InstanceOf(nodes', j) ]_vars
    /\ []((last.op = "run" /\ nextId > FirstFreshId) =>
             \A k \in DOMAIN calls :
                 /\ calls[k].server = InstanceOf(nodes, calls[k].idx)
                 /\ calls[k].op = "search" =>
                       \A e \in EnsureCallsOn(calls[k].server) :
                           calls[e].idx = calls[k].idx)

\* two nodes that shared one instance were dumped and loaded; in a run of
\* the loaded workflow the second node's ensure and search went to its own
\* instance and the first node's search to another
C20_Witness ==
    /\ pc = "done"
    /\ nextId > FirstFreshId
    /\ Len(nodes) = 2
    /\ nodes[1].server.name = nodes[2].server.name
    /\ InstanceOf(nodes, 1) # InstanceOf(nodes, 2)
    /\ EnsureCallsOn(InstanceOf(nodes, 2)) # {}
    /\ EnsureCallsOn(InstanceOf(nodes, 1)) = {}

\* the names of the back-ends a config declares, in the config's order
DeclaredServerNames(c) ==
    [i \in DOMAIN Items(CfgServers(c)) |-> Items(CfgServers(c))[i].v["name"].v]
ServerKeys(svs) == [i \in DOMAIN svs |-> svs[i].key]
NodeServerNames(nds) == [i \in DOMAIN nds |-> nds[i].server_name]
DumpedServerNames(svs, nds) ==
    DeclaredServerNames(MSS_Workflow_model_dump(svs, nds))

\* C21: a successful load_from_config of multi_stage_search.py stores exactly
\* the back-ends its nodes reference, in the order of their first
\* referencing node, each a new instance built from the config; a declared
\* back-end that no node references is constructed and not stored, so the
\* dump of the loaded workflow lists the referenced back-ends only, in that
\* order, which may be fewer than, or ordered differently from, the config.
C21_LoadKeepsReferencedServers ==
    [][ (module = "mss" /\ last'.op = "load" /\ last'.exc = NoExc) =>
            /\ ServerKeys(servers') = FirstOccurrences(NodeServerNames(nodes'))
            /\ DumpedServerNames(servers', nodes') = ServerKeys(servers')
            /\ \A i \in DOMAIN servers' :
                  /\ servers'[i].val.name = servers'[i].key
                  /\ servers'[i].val.id >= nextId
                  /\ servers'[i].val.id < nextId'
                  /\ \E j \in DOMAIN DeclaredServerNames(last'.cfg) :
                        DeclaredServerNames(last'.cfg)[j] = servers'[i].key
            /\ nextId' = nextId + Len(DeclaredServerNames(last'.cfg)) ]_vars

\* a config declaring s2 before s1, with nodes on s1 then s2, has been
\* loaded: the loaded workflow dumps its servers in the other order
C21_Witness ==
    /\ module = "mss"
    /\ last.op = "load"
    /\ last.exc = NoExc
    /\ DeclaredServerNames(last.cfg) = <<"s2", "s1">>
    /\ ServerKeys(servers) = <<"s1", "s2">>
    /\ DumpedServerNames(servers, nodes) # DeclaredServerNames(last.cfg)

(***************************************************************************)
(* C22                                                                     *)
(***************************************************************************)
\* a search or a run is being started on a workflow without nodes
StartsOnEmpty == nodes = <<>> /\ runNo' = runNo + 1

\* the search or run on a workflow without nodes is over
EmptyWorkflowOver == nodes = <<>> /\ runNo > 0

\* C22: search on a multi_stage_search.py workflow without nodes raises the
\* assertion error of line 163 at once: no back-end has been called, and
\* neither an output, a trace nor a log is returned; run on a framework.py
\* workflow without nodes returns at once, with an empty output map, and has
\* called no back-end and logged no action either. Nothing follows either of
\* them but a next search or run, which ends the same way.
C22_EmptyWorkflow ==
    /\ [][ StartsOnEmpty =>
              /\ calls' = <<>>
              /\ IF module = "mss"
                 THEN /\ pc' = "failed"
                      /\ last'.op = "search"
                      /\ last'.exc = Exc("AssertionError", "no nodes in workflow")
                      /\ ret' = NoReturn
                      /\ trace' = <<>>
                      /\ log' = <<>>
                 ELSE /\ pc' = "done"
                      /\ last'.op = "run"
                      /\ last'.exc = NoExc
                      /\ ret'.returned
                      /\ ret'.outputs = <<>>
                      /\ outputs' = <<>>
                      /\ log' = log ]_vars
    /\ [](EmptyWorkflowOver =>
              /\ calls = <<>>
              /\ pc = (IF module = "mss" THEN "failed" ELSE "done")
              /\ ret.returned = (module = "fw")
              /\ ret.outputs = <<>>
              /\ log = <<>>)

\* a run of a framework.py workflow without nodes has returned, for the
\* second time, the empty output map
C22_Witness ==
    /\ module = "fw"
    /\ EmptyWorkflowOver
    /\ runNo = MaxRuns
    /\ pc = "done"
    /\ ret.returned
    /\ ret.outputs = <<>>

====
